---- MODULE Spec2Model ----
(***************************************************************************)
(* A model of localdb (src/src/lib.rs): a record store that keeps named    *)
(* collections of rows in one JSON document and interprets a small         *)
(* statement language (CREATE TABLE, INSERT INTO / INSET INTO, SELECT).    *)
(*                                                                         *)
(* Text is modelled as sequences of one-character strings, so that the     *)
(* textual scanning of the interpreter (trim, split, starts_with, find,    *)
(* replace) is computed as the code computes it.  The document is          *)
(* modelled as the JSON value its text denotes (or as text that is not     *)
(* JSON); fs::read_to_string and fs::write are single steps.               *)
(***************************************************************************)
EXTENDS Integers, Sequences, FiniteSets, TLC

(***************************************************************************)
(* Bounds of the model.                                                    *)
(***************************************************************************)
\* a batch with an insert statement is submitted only while the document
\* holds fewer rows than this
MaxRows == 2

\* each of the concurrent callers makes at most this many calls
MaxConcCalls == 1

\* the longest collection of a database handed to save_json directly
MaxSavedRows == 2

\* callers that hold (or may hold) a LocalDB value for the one document
Callers == {1, 2}

(***************************************************************************)
(* Text: the operations of str the interpreter uses.                       *)
(***************************************************************************)
IsWhite(ch) == ch \in {" ", "\n", "\t"}

MinOf(S) == CHOOSE i \in S : \A j \in S : i <= j

MaxOf(S) == CHOOSE i \in S : \A j \in S : j <= i

\* str::starts_with
StartsWith(s, p) == Len(p) <= Len(s) /\ SubSeq(s, 1, Len(p)) = p

\* str::trim
Trim(s) ==
  LET I == {i \in 1..Len(s) : ~IsWhite(s[i])}
  IN IF I = {} THEN <<>> ELSE SubSeq(s, MinOf(I), MaxOf(I))

\* str::find: the index of the first occurrence of p in s, 0 for None
Find(s, p) ==
  LET I == {i \in 1..(Len(s) - Len(p) + 1) : SubSeq(s, i, i + Len(p) - 1) = p}
  IN IF I = {} THEN 0 ELSE MinOf(I)

\* str::split on a separator: the segments, empty ones included
RECURSIVE Split(_, _)
Split(s, sep) ==
  LET i == Find(s, sep)
  IN IF i = 0 THEN <<s>>
     ELSE <<SubSeq(s, 1, i - 1)>> \o Split(SubSeq(s, i + Len(sep), Len(s)), sep)

\* str::split_whitespace: the non-empty whitespace-delimited tokens
RECURSIVE SplitWhitespace(_)
SplitWhitespace(s) ==
  LET I == {i \in 1..Len(s) : ~IsWhite(s[i])}
  IN IF I = {} THEN <<>>
     ELSE LET b == MinOf(I)
              W == {i \in b..Len(s) : IsWhite(s[i])}
              e == IF W = {} THEN Len(s) + 1 ELSE MinOf(W)
          IN <<SubSeq(s, b, e - 1)>> \o SplitWhitespace(SubSeq(s, e, Len(s)))

\* str::replace: every non-overlapping occurrence, left to right
RECURSIVE Replace(_, _, _)
Replace(s, pat, rep) ==
  LET i == Find(s, pat)
  IN IF i = 0 THEN s
     ELSE SubSeq(s, 1, i - 1) \o rep
            \o Replace(SubSeq(s, i + Len(pat), Len(s)), pat, rep)

(***************************************************************************)
(* The literals of the source.                                             *)
(***************************************************************************)
kwCREATE_TABLE == <<"C","R","E","A","T","E"," ","T","A","B","L","E">>

kwINSERT_INTO == <<"I","N","S","E","R","T"," ","I","N","T","O">>

kwINSET_INTO == <<"I","N","S","E","T"," ","I","N","T","O">>

kwSELECT == <<"S","E","L","E","C","T">>

txtINSET == <<"I","N","S","E","T">>

txtINSERT == <<"I","N","S","E","R","T">>

msgUnsupported == <<"U","n","s","u","p","p","o","r","t","e","d"," ","S","Q","L",":"," ">>

msgOnlySelect == <<"O","n","l","y"," ","S","E","L","E","C","T"," ","i","s"," ","s","u","p","p","o","r","t","e","d">>

msgInvalidSelect == <<"I","n","v","a","l","i","d"," ","S","E","L","E","C","T"," ","s","y","n","t","a","x">>

msgNotFound == <<"D","a","t","a","b","a","s","e"," ","f","i","l","e"," ","n","o","t"," ","f","o","u","n","d">>

\* e.to_string() of the io::Error of a missing file
msgOsError == <<"N","o"," ","s","u","c","h"," ","f","i","l","e">>

(***************************************************************************)
(* Results: Result<T, LocalDBError>, or the panic of an unguarded index,   *)
(* unwrap or slice.  One record shape for all of them.                     *)
(***************************************************************************)
Ok(v) == [tag |-> "Ok", kind |-> "", msg |-> <<>>, rows |-> v]

IoError(m) == [tag |-> "Err", kind |-> "IoError", msg |-> m, rows |-> <<>>]

SqlError(m) == [tag |-> "Err", kind |-> "SqlError", msg |-> m, rows |-> <<>>]

Panic == [tag |-> "Panic", kind |-> "", msg |-> <<>>, rows |-> <<>>]

\* no call has returned yet
Pending == [tag |-> "Pending", kind |-> "", msg |-> <<>>, rows |-> <<>>]

(***************************************************************************)
(* Values, rows, databases.                                                *)
(* HashMap<String, Vec<HashMap<String, LocalDBValue>>>: a function from    *)
(* collection names to sequences of rows, a row a function from field      *)
(* names to tagged values.                                                 *)
(***************************************************************************)
INT(n) == [tag |-> "INT", val |-> n]

TEXT(s) == [tag |-> "TEXT", val |-> s]

UUID(s) == [tag |-> "UUID", val |-> s]

ValueTags == {"INT", "TEXT", "UUID"}

EmptyDB == [k \in {} |-> <<>>]

\* an insert that drops the other keys
DbInsertOnly(db, k, v) == (k :> v)

\* HashMap::insert
DbInsert(db, k, v) == [x \in (DOMAIN db) \cup {k} |-> IF x = k THEN v ELSE db[x]]

\* data.get(&table).cloned().unwrap_or_default()
DbGet(db, k) == IF k \in DOMAIN db THEN db[k] ELSE <<>>

(***************************************************************************)
(* The document: the JSON value its text denotes.                          *)
(***************************************************************************)
JObject(m) == [j |-> "object", v |-> m]

JArray(s) == [j |-> "array", v |-> s]

JString(s) == [j |-> "string", v |-> s]

JNumber(n) == [j |-> "number", v |-> n]

\* text that is not JSON (the empty text, a truncated document)
NotJson == [j |-> "invalid", v |-> <<>>]

\* a serialization that writes every string value under the TEXT tag
ValueToJsonText(x) ==
  JObject(((IF x.tag = "INT" THEN "INT" ELSE "TEXT") :>
             (IF x.tag = "INT" THEN JNumber(x.val) ELSE JString(x.val))))

\* the derived Serialize of LocalDBValue: {"TAG": payload}
ValueToJson(x) ==
  JObject((x.tag :> (IF x.tag = "INT" THEN JNumber(x.val) ELSE JString(x.val))))

RowToJson(row) == JObject([f \in DOMAIN row |-> ValueToJson(row[f])])

\* serde_json::to_string_pretty(&data)
ToJson(db) ==
  JObject([k \in DOMAIN db |->
             JArray([i \in 1..Len(db[k]) |-> RowToJson(db[k][i])])])

\* the derived Deserialize of LocalDBValue: one known tag, a payload of its type
IsValueJson(J) ==
  /\ J.j = "object"
  /\ Cardinality(DOMAIN J.v) = 1
  /\ \A t \in DOMAIN J.v :
       /\ t \in ValueTags
       /\ J.v[t].j = (IF t = "INT" THEN "number" ELSE "string")

IsRowJson(J) == J.j = "object" /\ \A f \in DOMAIN J.v : IsValueJson(J.v[f])

IsDbJson(J) ==
  /\ J.j = "object"
  /\ \A k \in DOMAIN J.v :
       /\ J.v[k].j = "array"
       /\ \A i \in 1..Len(J.v[k].v) : IsRowJson(J.v[k].v[i])

ValueFromJson(J) ==
  LET t == CHOOSE t \in DOMAIN J.v : TRUE
  IN [tag |-> t, val |-> J.v[t].v]

RowFromJson(J) == [f \in DOMAIN J.v |-> ValueFromJson(J.v[f])]

\* serde_json::from_str(&content).unwrap_or_default()
FromJson(J) ==
  IF IsDbJson(J)
  THEN [k \in DOMAIN J.v |->
          [i \in 1..Len(J.v[k].v) |-> RowFromJson(J.v[k].v[i])]]
  ELSE EmptyDB

(***************************************************************************)
(* Parse helpers.  A helper yields Ok(value), an error, or Panic where the *)
(* code indexes, unwraps or slices without a guard.                        *)
(***************************************************************************)
\* extract_table_name_from_create: parts[2]
ExtractTableNameFromCreate(sql) ==
  LET parts == SplitWhitespace(sql)
  IN IF Len(parts) < 3 THEN Panic ELSE Ok(parts[3])

\* extract_table_name_from_select: parts[3] without its ";"
ExtractTableNameFromSelect(sql) ==
  LET parts == SplitWhitespace(sql)
  IN IF Len(parts) < 4 THEN SqlError(msgInvalidSelect)
     ELSE Ok(Replace(parts[4], <<";">>, <<>>))

\* extract_insert_data: (table, (uuid, name))
ExtractInsertData(sql) ==
  LET parts == SplitWhitespace(sql)
      open  == Find(sql, <<"(">>)
      close == Find(sql, <<")">>)
      list  == Split(SubSeq(sql, open + 1, close - 1), <<",">>)
  IN IF Len(parts) < 3 THEN Panic            \* parts[2]
     ELSE IF open = 0 THEN Panic             \* find("(").unwrap()
     ELSE IF close = 0 THEN Panic            \* find(")").unwrap()
     ELSE IF close < open THEN Panic         \* &sql[start..end], start > end
     ELSE IF Len(list) < 2 THEN Panic        \* list[1]
     ELSE Ok([table |-> parts[3],
              uuid  |-> Replace(Trim(list[1]), <<"'">>, <<>>),
              name  |-> Replace(Trim(list[2]), <<"'">>, <<>>)])

(***************************************************************************)
(* JSON helpers.  A file is [exists, content].                             *)
(***************************************************************************)
NoFile == [exists |-> FALSE, content |-> NotJson]

FileOf(J) == [exists |-> TRUE, content |-> J]

\* the database a document holds
DbOf(f) == FromJson(f.content)

\* a load that fails on text that does not deserialize
LoadJsonStrict(f) ==
  IF f.exists /\ IsDbJson(f.content) THEN Ok(FromJson(f.content))
  ELSE IoError(msgOsError)

\* load_json: read_to_string, then from_str(..).unwrap_or_default()
LoadJson(f) == IF f.exists THEN Ok(FromJson(f.content)) ELSE IoError(msgOsError)

\* save_json: to_string_pretty, then fs::write
SaveJson(db) == FileOf(ToJson(db))

(***************************************************************************)
(* Handlers, up to their save: the value of `data` handed to save_json,    *)
(* or the error or panic that ends the handler before it.                  *)
(***************************************************************************)
\* the arguments taken in the wrong order
NewRowSwapped(uuid, name) == [id |-> UUID(name), name |-> TEXT(uuid)]

\* the row handle_insert builds
\* a row whose id is tagged TEXT
NewRowText(uuid, name) == [id |-> TEXT(uuid), name |-> TEXT(name)]

NewRow(uuid, name) == [id |-> UUID(uuid), name |-> TEXT(name)]

\* a push at the front
PushRowFront(db, table, row) == [db EXCEPT ![table] = <<row>> \o @]

\* data.get_mut(&table).unwrap().push(row)
\* a push that replaces the rows of the table
PushRowOnly(db, table, row) == [db EXCEPT ![table] = <<row>>]

PushRow(db, table, row) == [db EXCEPT ![table] = Append(@, row)]

\* an insert without the contains_key guard
EnsureTableAlways(db, name) == DbInsert(db, name, <<>>)

\* if !data.contains_key(&name) { data.insert(name, vec![]) }
EnsureTable(db, name) == IF name \in DOMAIN db THEN db ELSE DbInsert(db, name, <<>>)

\* let sql_fixed = sql.replace("INSET", "INSERT")
FixSql(sql) == Replace(sql, txtINSET, txtINSERT)

HandleCreateTable(f, sql) ==
  LET name == ExtractTableNameFromCreate(sql)
      load == LoadJson(f)
  IN IF name.tag # "Ok" THEN name
     ELSE IF load.tag # "Ok" THEN load
     ELSE Ok(EnsureTable(load.rows, name.rows))

HandleInsert(f, sql) ==
  LET x    == ExtractInsertData(FixSql(sql))
      load == LoadJson(f)
  IN IF x.tag # "Ok" THEN x
     ELSE IF load.tag # "Ok" THEN load
     ELSE Ok(PushRow(EnsureTable(load.rows, x.rows.table), x.rows.table,
                     NewRow(x.rows.uuid, x.rows.name)))

\* the dispatch of exec on one trimmed, non-empty statement
IsCreate(stmt) == StartsWith(stmt, kwCREATE_TABLE)

\* the dispatch without the INSET variant
IsInsertExact(stmt) == StartsWith(stmt, kwINSERT_INTO)

IsInsert(stmt) == StartsWith(stmt, kwINSERT_INTO) \/ StartsWith(stmt, kwINSET_INTO)

\* the error without the statement's text
UnsupportedBare(stmt) == SqlError(msgUnsupported)

Unsupported(stmt) == SqlError(msgUnsupported \o stmt)

\* query as it would be if an absent table were an error
QueryResultStrict(f, sql0) ==
  LET sql   == Trim(sql0)
      table == ExtractTableNameFromSelect(sql)
      load  == LoadJson(f)
  IN IF ~StartsWith(sql, kwSELECT) THEN SqlError(msgOnlySelect)
     ELSE IF table.tag # "Ok" THEN table
     ELSE IF load.tag # "Ok" THEN load
     ELSE IF table.rows \notin DOMAIN load.rows THEN SqlError(msgInvalidSelect)
     ELSE Ok(DbGet(load.rows, table.rows))

\* query as it would be if it read the file before looking at the statement
QueryResultLoadFirst(f, sql0) ==
  LET sql   == Trim(sql0)
      table == ExtractTableNameFromSelect(sql)
      load  == LoadJson(f)
  IN IF load.tag # "Ok" THEN load
     ELSE IF ~StartsWith(sql, kwSELECT) THEN SqlError(msgOnlySelect)
     ELSE IF table.tag # "Ok" THEN table
     ELSE Ok(DbGet(load.rows, table.rows))

\* query, whole
QueryResult(f, sql0) ==
  LET sql   == Trim(sql0)
      table == ExtractTableNameFromSelect(sql)
      load  == LoadJson(f)
  IN IF ~StartsWith(sql, kwSELECT) THEN SqlError(msgOnlySelect)
     ELSE IF table.tag # "Ok" THEN table
     ELSE IF load.tag # "Ok" THEN load
     ELSE Ok(DbGet(load.rows, table.rows))

(***************************************************************************)
(* The statements the callers submit: the shapes of tests/unittest.rs,     *)
(* over two collection names and two values, and incomplete or foreign     *)
(* statements.                                                             *)
(***************************************************************************)
tT == <<"t">>

tU == <<"u">>

vA == <<"a">>

vB == <<"b">>

Names == {tT, tU}

\* the (id, name) argument pairs of the insert statements
RowArgs == {<<vA, vB>>, <<vB, vA>>}

txtColumns == <<" ","(","i","d"," ","U","U","I","D",","," ","n","a","m","e"," ","T","E","X","T",")">>

txtValues == <<" ","V","A","L","U","E","S"," ","(">>

txtSelectFrom == <<"S","E","L","E","C","T"," ","*"," ","F","R","O","M"," ">>

txtDropTable == <<"D","R","O","P"," ","T","A","B","L","E"," ">>

Quoted(x) == <<"'">> \o x \o <<"'">>

\* CREATE TABLE t (id UUID, name TEXT)
CreateStmt(t) == kwCREATE_TABLE \o <<" ">> \o t \o txtColumns

\* INSERT INTO t VALUES ('x', 'y')
InsertStmt(t, x, y) ==
  kwINSERT_INTO \o <<" ">> \o t \o txtValues \o Quoted(x) \o <<",", " ">>
    \o Quoted(y) \o <<")">>

\* INSET INTO t VALUES ('x','y')
InsetStmt(t, x, y) ==
  kwINSET_INTO \o <<" ">> \o t \o txtValues \o Quoted(x) \o <<",">>
    \o Quoted(y) \o <<")">>

\* DROP TABLE t
DropStmt(t) == txtDropTable \o t

\* SELECT * FROM t;
SelectStmt(t) == txtSelectFrom \o t \o <<";">>

\* creation and insertion statements that lack a required part
NoNameCreate == kwCREATE_TABLE

NoNameInsert == kwINSERT_INTO

NoListInsert == kwINSERT_INTO \o <<" ">> \o tT

OneArgInsert == kwINSERT_INTO \o <<" ">> \o tT \o txtValues \o Quoted(vA) \o <<")">>

NoOpenInsert == kwINSERT_INTO \o <<" ">> \o tT \o <<" ">> \o Quoted(vA) \o <<",">> \o Quoted(vB) \o <<")">>

NoCloseInsert == kwINSERT_INTO \o <<" ">> \o tT \o txtValues \o Quoted(vA) \o <<",">> \o Quoted(vB)

Incomplete ==
  {NoNameCreate, NoNameInsert, NoListInsert, OneArgInsert, NoOpenInsert, NoCloseInsert}

WellFormed ==
  {CreateStmt(t) : t \in Names}
    \cup {InsertStmt(tT, a[1], a[2]) : a \in RowArgs}
    \cup {InsetStmt(tT, a[1], a[2]) : a \in RowArgs}
    \cup {InsertStmt(tU, vA, vB), InsetStmt(tU, vA, vB)}

\* a batch of one statement: "s;"
One(s) == s \o <<";">>

\* a batch of two statements, as add_lines joins two lines: "s1;\ns2;\n"
Two(s1, s2) == s1 \o <<";", "\n">> \o s2 \o <<";", "\n">>

\* a batch of three statements on one line: "s1; s2; s3"
Three(s1, s2, s3) == s1 \o <<";", " ">> \o s2 \o <<";", " ">> \o s3

Foreign ==
  {DropStmt(tT),
   <<"i","n","s","e","r","t"," ","i","n","t","o"," ","t"," ","(","'","a","'",",","'","b","'",")">>}

Pairs ==
  {Two(CreateStmt(tT), InsertStmt(tT, vA, vB)),
   Two(CreateStmt(tT), InsertStmt(tT, vB, vA)),
   Two(CreateStmt(tU), InsetStmt(tU, vA, vB)),
   Two(InsertStmt(tT, vA, vB), InsetStmt(tT, vB, vA)),
   Two(InsertStmt(tT, vB, vA), InsertStmt(tU, vA, vB)),
   Two(DropStmt(tT), InsertStmt(tT, vA, vB)),
   Two(InsertStmt(tT, vA, vB), DropStmt(tT)),
   Two(InsertStmt(tU, vA, vB), OneArgInsert)}

Triples ==
  {Three(InsertStmt(tT, vA, vB), s, InsertStmt(tT, vB, vA)) :
     s \in {DropStmt(tT), OneArgInsert, CreateStmt(tU)}}

Batches ==
  {One(s) : s \in WellFormed \cup Incomplete \cup Foreign}
    \cup Pairs \cup Triples \cup {<<>>, <<" ", ";", ";", "\n">>}

Queries ==
  {SelectStmt(t) : t \in Names}
    \cup {<<" ">> \o txtSelectFrom \o tT \o <<"\n">>,   \* untrimmed, no ";"
          txtSelectFrom,                                  \* three tokens
          kwSELECT,
          One(DropStmt(tT)),
          <<"s","e","l","e","c","t"," ","*"," ","f","r","o","m"," ","t",";">>}

\* the batches and queries of the concurrent callers
ConcBatches ==
  {One(InsertStmt(tT, vA, vB)), One(InsetStmt(tT, vB, vA)),
   <<";">> \o Two(CreateStmt(tT), DropStmt(tT))}

ConcQueries == {SelectStmt(tT)}

\* statements whose leading tokens have a keyword as a proper prefix, or
\* differ from it in case
PrefixCreate == kwCREATE_TABLE \o <<"X", " ">> \o tT

PrefixInsert ==
  kwINSERT_INTO \o <<"X", " ">> \o tT \o txtValues \o Quoted(vA) \o <<",">>
    \o Quoted(vB) \o <<")">>

LowerCreate == <<"c","r","e","a","t","e"," ","t","a","b","l","e"," ","t">>

PrefixSelect == kwSELECT \o <<"X"," ","*"," ","F","R","O","M"," ">> \o tT \o <<";">>

LowerSelect == <<"s","e","l","e","c","t"," ","*"," ","f","r","o","m"," ","t",";">>

NearKeyword == {PrefixCreate, PrefixInsert, LowerCreate}

NearSelect == {PrefixSelect, LowerSelect}

\* the (table, id, name) of insert statements: plain ones, and ones whose
\* table or value is the text INSET
PlainArgs == {<<tT, vA, vB>>}

InsetArgs == {<<tT, txtINSET, vB>>, <<txtINSET, vA, vB>>}

\* the batches and queries of a caller who writes such statements
TextBatches ==
  {One(InsertStmt(a[1], a[2], a[3])) : a \in PlainArgs \cup InsetArgs}
    \cup {One(InsetStmt(tT, vA, txtINSET))}
    \cup {One(s) : s \in NearKeyword}
    \cup {<<";">> \o Two(CreateStmt(tT), DropStmt(tT))}

TextQueries == {SelectStmt(tT), SelectStmt(txtINSET), SelectStmt(txtINSERT)} \cup NearSelect

(***************************************************************************)
(* State.                                                                  *)
(***************************************************************************)
VARIABLES
  file,      \* the document at the one path: [exists, content]
  handle,    \* handle[c]: caller c holds a LocalDB value for the path
  pc,        \* pc[c]: "idle", "loop" (in exec's for loop), "save" (a handler
             \*   has loaded and changed `data` and is about to save it)
  stmts,     \* stmts[c]: the segments of `sql.split(";")` not yet visited
  cur,       \* cur[c]: the statement the running handler was called with
  data,      \* data[c]: the running handler's `data`
  result,    \* result[c]: what c's last call returned (Pending while it runs)
  call,      \* call[c]: c's last call, [op, sql], until the document is
             \*   removed
  pre,       \* pre[c]: the document when c's last call began
  loaded,    \* loaded[c]: the document c's last handler read in load_json
  tracked,   \* tracked[c]: c last created the document, or opened it when
             \*   it held no row
  log,       \* log[c]: while tracked[c], [table, row] of the inserts of c
             \*   that were saved since then
  opening,   \* opening[c]: c's last create and the first two calls after
             \*   it, while nobody else touched the document; else <<>>
  lastSaver, \* the caller whose save_json wrote the document last, 0 for none
  ncalls     \* ncalls[c]: the calls c made as a concurrent caller

vars == <<file, handle, pc, stmts, cur, data, result, call, pre, loaded,
          tracked, log, opening, lastSaver, ncalls>>

NoCall == [op |-> "none", sql |-> <<>>]

CallOf(op, sql) == [op |-> op, sql |-> sql]

\* the documents found at the path before any caller attaches
InitialFiles == {NoFile, FileOf(NotJson), FileOf(JArray(<<>>))}

\* the rows a document holds
RECURSIVE SumLen(_, _)
SumLen(db, K) ==
  IF K = {} THEN 0
  ELSE LET k == CHOOSE k \in K : TRUE IN Len(db[k]) + SumLen(db, K \ {k})

TotalRows(f) == LET db == FromJson(f.content) IN SumLen(db, DOMAIN db)

Idle ==
  /\ pc = [c \in Callers |-> "idle"]
  /\ stmts = [c \in Callers |-> <<>>]
  /\ cur = [c \in Callers |-> <<>>]
  /\ data = [c \in Callers |-> EmptyDB]
  /\ result = [c \in Callers |-> Pending]
  /\ call = [c \in Callers |-> NoCall]
  /\ pre = [c \in Callers |-> NoFile]
  /\ loaded = [c \in Callers |-> NoFile]
  /\ log = [c \in Callers |-> <<>>]
  /\ opening = [c \in Callers |-> <<>>]
  /\ lastSaver = 0
  /\ ncalls = [c \in Callers |-> 0]

\* nobody holds a LocalDB value yet
Init ==
  /\ file \in InitialFiles
  /\ handle = [c \in Callers |-> FALSE]
  /\ tracked = [c \in Callers |-> FALSE]
  /\ Idle

\* one caller has created the document and the other has opened it
InitConc ==
  /\ file = FileOf(JObject(EmptyDB))
  /\ handle = [c \in Callers |-> TRUE]
  /\ tracked = [c \in Callers |-> TRUE]
  /\ Idle

(***************************************************************************)
(* The record of the calls (history, no part of the program's state).      *)
(***************************************************************************)
\* c begins a call that is not create
Begin(c, op, sql) ==
  /\ call' = [call EXCEPT ![c] = CallOf(op, sql)]
  /\ pre' = [pre EXCEPT ![c] = file]
  /\ opening' = [opening EXCEPT ![c] =
                   IF @ # <<>> /\ Len(@) < 3 THEN Append(@, CallOf(op, sql))
                   ELSE <<>>]

\* c writes the document: the other callers' openings end
Others(c, own) == [d \in Callers |-> IF d = c THEN own ELSE <<>>]

(***************************************************************************)
(* LocalDB::create and LocalDB::open.                                      *)
(***************************************************************************)
\* a create that keeps a document it finds
CreateKeep(c) ==
  /\ pc[c] = "idle"
  /\ file' = IF file.exists THEN file ELSE FileOf(JObject(EmptyDB))
  /\ handle' = [handle EXCEPT ![c] = TRUE]
  /\ result' = [result EXCEPT ![c] = Ok(<<>>)]
  /\ call' = [call EXCEPT ![c] = CallOf("create", <<>>)]
  /\ pre' = [pre EXCEPT ![c] = file]
  /\ tracked' = [tracked EXCEPT ![c] = TRUE]
  /\ log' = [log EXCEPT ![c] = <<>>]
  /\ opening' = Others(c, <<CallOf("create", <<>>)>>)
  /\ UNCHANGED <<pc, stmts, cur, data, loaded, lastSaver>>

\* fs::write(path, "{}"); Ok(Self { path })
Create(c) ==
  /\ pc[c] = "idle"
  /\ file' = FileOf(JObject(EmptyDB))
  /\ handle' = [handle EXCEPT ![c] = TRUE]
  /\ result' = [result EXCEPT ![c] = Ok(<<>>)]
  /\ call' = [call EXCEPT ![c] = CallOf("create", <<>>)]
  /\ pre' = [pre EXCEPT ![c] = file]
  /\ tracked' = [tracked EXCEPT ![c] = TRUE]
  /\ log' = [log EXCEPT ![c] = <<>>]
  /\ opening' = Others(c, <<CallOf("create", <<>>)>>)
  /\ UNCHANGED <<pc, stmts, cur, data, loaded, lastSaver>>

\* an open that reads the document and refuses one that does not deserialize
OpenValidating(c) ==
  /\ pc[c] = "idle"
  /\ handle' = [handle EXCEPT ![c] = @ \/ (file.exists /\ IsDbJson(file.content))]
  /\ result' = [result EXCEPT ![c] =
                  IF file.exists /\ IsDbJson(file.content) THEN Ok(<<>>)
                  ELSE IoError(msgNotFound)]
  /\ call' = [call EXCEPT ![c] = CallOf("open", <<>>)]
  /\ pre' = [pre EXCEPT ![c] = file]
  /\ tracked' = [tracked EXCEPT ![c] =
                   IF file.exists THEN TotalRows(file) = 0 ELSE @]
  /\ log' = [log EXCEPT ![c] = IF file.exists THEN <<>> ELSE @]
  /\ opening' = [opening EXCEPT ![c] = <<>>]
  /\ UNCHANGED <<file, pc, stmts, cur, data, loaded, lastSaver>>

\* Err(IoError("Database file not found")) unless the path exists
Open(c) ==
  /\ pc[c] = "idle"
  /\ handle' = [handle EXCEPT ![c] = @ \/ file.exists]
  /\ result' = [result EXCEPT ![c] =
                  IF file.exists THEN Ok(<<>>) ELSE IoError(msgNotFound)]
  /\ call' = [call EXCEPT ![c] = CallOf("open", <<>>)]
  /\ pre' = [pre EXCEPT ![c] = file]
  /\ tracked' = [tracked EXCEPT ![c] =
                   IF file.exists THEN TotalRows(file) = 0 ELSE @]
  /\ log' = [log EXCEPT ![c] = IF file.exists THEN <<>> ELSE @]
  /\ opening' = [opening EXCEPT ![c] = <<>>]
  /\ UNCHANGED <<file, pc, stmts, cur, data, loaded, lastSaver>>

(***************************************************************************)
(* LocalDB::exec, one step per visit of the for loop and per save.         *)
(***************************************************************************)
\* the non-empty trimmed segments of a batch
Statements(sql) ==
  LET segs == Split(sql, <<";">>)
  IN SelectSeq([i \in 1..Len(segs) |-> Trim(segs[i])], LAMBDA x : x # <<>>)

\* the batch has an insert statement
Grows(sql) == \E i \in 1..Len(Statements(sql)) : IsInsert(Statements(sql)[i])

\* the submitted batches that have an insert statement
Growing == {sql \in Batches \cup ConcBatches \cup TextBatches : Grows(sql)}

\* let statements = sql.split(";")
CallExec(c, sql) ==
  /\ pc[c] = "idle"
  /\ handle[c]
  /\ sql \in Growing => TotalRows(file) < MaxRows
  /\ pc' = [pc EXCEPT ![c] = "loop"]
  /\ stmts' = [stmts EXCEPT ![c] = Split(sql, <<";">>)]
  /\ result' = [result EXCEPT ![c] = Pending]
  /\ Begin(c, "exec", sql)
  /\ UNCHANGED <<file, handle, cur, data, loaded, tracked, log, lastSaver>>

\* exec or a handler returns r: its locals are dropped
Return(c, r) ==
  /\ pc' = [pc EXCEPT ![c] = "idle"]
  /\ stmts' = [stmts EXCEPT ![c] = <<>>]
  /\ cur' = [cur EXCEPT ![c] = <<>>]
  /\ data' = [data EXCEPT ![c] = EmptyDB]
  /\ result' = [result EXCEPT ![c] = r]

\* the loop is over: Ok(())
ExecDone(c) ==
  /\ pc[c] = "loop"
  /\ stmts[c] = <<>>
  /\ Return(c, Ok(<<>>))
  /\ UNCHANGED <<file, handle, call, pre, loaded, tracked, log, opening, lastSaver>>

\* if stmt.is_empty() { continue }
ExecSkip(c) ==
  /\ pc[c] = "loop"
  /\ stmts[c] # <<>>
  /\ Trim(Head(stmts[c])) = <<>>
  /\ stmts' = [stmts EXCEPT ![c] = Tail(@)]
  /\ UNCHANGED <<file, handle, pc, cur, data, result, call, pre, loaded, tracked,
                 log, opening, lastSaver>>

\* a handler runs up to its save_json, or ends with `?` or a panic
Handle(c, stmt, r) ==
  /\ IF r.tag = "Ok"
     THEN /\ cur' = [cur EXCEPT ![c] = stmt]
          /\ data' = [data EXCEPT ![c] = r.rows]
          /\ pc' = [pc EXCEPT ![c] = "save"]
          /\ stmts' = [stmts EXCEPT ![c] = Tail(@)]
          /\ loaded' = [loaded EXCEPT ![c] = file]
          /\ UNCHANGED result
     ELSE /\ Return(c, r)
          /\ UNCHANGED loaded
  /\ UNCHANGED <<file, handle, call, pre, tracked, log, opening, lastSaver>>

\* self.handle_create_table(stmt)?
ExecCreate(c) ==
  /\ pc[c] = "loop"
  /\ stmts[c] # <<>>
  /\ LET stmt == Trim(Head(stmts[c]))
     IN /\ stmt # <<>>
        /\ IsCreate(stmt)
        /\ Handle(c, stmt, HandleCreateTable(file, stmt))

\* self.handle_insert(stmt)?
ExecInsert(c) ==
  /\ pc[c] = "loop"
  /\ stmts[c] # <<>>
  /\ LET stmt == Trim(Head(stmts[c]))
     IN /\ stmt # <<>>
        /\ ~IsCreate(stmt)
        /\ IsInsert(stmt)
        /\ Handle(c, stmt, HandleInsert(file, stmt))

\* return Err(SqlError(format!("Unsupported SQL: {}", stmt)))
ExecUnsupported(c) ==
  /\ pc[c] = "loop"
  /\ stmts[c] # <<>>
  /\ LET stmt == Trim(Head(stmts[c]))
     IN /\ stmt # <<>>
        /\ ~IsCreate(stmt)
        /\ ~IsInsert(stmt)
        /\ Return(c, Unsupported(stmt))
  /\ UNCHANGED <<file, handle, call, pre, loaded, tracked, log, opening, lastSaver>>

\* the [table, row] an insert statement appends
Inserted(stmt) ==
  LET x == ExtractInsertData(FixSql(stmt)).rows
  IN [table |-> x.table, row |-> NewRow(x.uuid, x.name)]

\* save as it would be if an insert re-read the document when it saves
SaveFresh(c) ==
  /\ pc[c] = "save"
  /\ file' = IF IsCreate(cur[c]) THEN SaveJson(data[c])
             ELSE SaveJson(PushRow(EnsureTable(DbOf(file), Inserted(cur[c]).table),
                                   Inserted(cur[c]).table, Inserted(cur[c]).row))
  /\ pc' = [pc EXCEPT ![c] = "loop"]
  /\ cur' = [cur EXCEPT ![c] = <<>>]
  /\ data' = [data EXCEPT ![c] = EmptyDB]
  /\ log' = [log EXCEPT ![c] =
               IF tracked[c] /\ ~IsCreate(cur[c]) THEN Append(@, Inserted(cur[c]))
               ELSE @]
  /\ opening' = Others(c, opening[c])
  /\ lastSaver' = c
  /\ UNCHANGED <<handle, stmts, result, call, pre, loaded, tracked>>

\* Self::save_json(&self.path, &data)?; Ok(()): back in the loop of exec
Save(c) ==
  /\ pc[c] = "save"
  /\ file' = SaveJson(data[c])
  /\ pc' = [pc EXCEPT ![c] = "loop"]
  /\ cur' = [cur EXCEPT ![c] = <<>>]
  /\ data' = [data EXCEPT ![c] = EmptyDB]
  /\ log' = [log EXCEPT ![c] =
               IF tracked[c] /\ ~IsCreate(cur[c]) THEN Append(@, Inserted(cur[c]))
               ELSE @]
  /\ opening' = Others(c, opening[c])
  /\ lastSaver' = c
  /\ UNCHANGED <<handle, stmts, result, call, pre, loaded, tracked>>

(***************************************************************************)
(* LocalDB::query.                                                         *)
(***************************************************************************)
\* a query that writes back what it loaded
QueryRewriting(c, sql) ==
  /\ pc[c] = "idle"
  /\ handle[c]
  /\ file' = IF file.exists THEN SaveJson(FromJson(file.content)) ELSE file
  /\ result' = [result EXCEPT ![c] = QueryResult(file, sql)]
  /\ Begin(c, "query", sql)
  /\ UNCHANGED <<handle, pc, stmts, cur, data, loaded, tracked, log, lastSaver>>

Query(c, sql) ==
  /\ pc[c] = "idle"
  /\ handle[c]
  /\ result' = [result EXCEPT ![c] = QueryResult(file, sql)]
  /\ Begin(c, "query", sql)
  /\ UNCHANGED <<file, handle, pc, stmts, cur, data, loaded, tracked, log, lastSaver>>

(***************************************************************************)
(* The environment: the document is removed between calls, as the test     *)
(* does before and after its run.                                          *)
(***************************************************************************)
RemoveFile ==
  /\ file.exists
  /\ \A c \in Callers : pc[c] = "idle"
  /\ file' = NoFile
  /\ call' = [c \in Callers |-> NoCall]
  /\ opening' = [c \in Callers |-> <<>>]
  /\ UNCHANGED <<handle, pc, stmts, cur, data, result, pre, loaded, tracked,
                 log, lastSaver>>

(***************************************************************************)
(* Specifications: one caller; two callers on the same document.           *)
(***************************************************************************)
Running(c) ==
  \/ ExecDone(c)
  \/ ExecSkip(c)
  \/ ExecCreate(c)
  \/ ExecInsert(c)
  \/ ExecUnsupported(c)
  \/ Save(c)

Next ==
  /\ \/ Create(1)
     \/ Open(1)
     \/ \E sql \in Batches : CallExec(1, sql)
     \/ \E sql \in Queries : Query(1, sql)
     \/ Running(1)
     \/ RemoveFile
  /\ UNCHANGED ncalls

Spec == Init /\ [][Next]_vars

\* a concurrent caller makes one more call
Count(c) ==
  /\ ncalls[c] < MaxConcCalls
  /\ ncalls' = [ncalls EXCEPT ![c] = @ + 1]

NextConc ==
  \/ \E c \in Callers : \E sql \in ConcBatches : CallExec(c, sql) /\ Count(c)
  \/ \E c \in Callers : \E sql \in ConcQueries : Query(c, sql) /\ Count(c)
  \/ \E c \in Callers : Running(c) /\ UNCHANGED ncalls

SpecConc == InitConc /\ [][NextConc]_vars

\* one caller, on a document just created, writes statements that have the
\* text INSET in a name or a value, or a keyword as a prefix of another word
InitText ==
  /\ file = FileOf(JObject(EmptyDB))
  /\ handle = [c \in Callers |-> TRUE]
  /\ tracked = [c \in Callers |-> TRUE]
  /\ Idle

NextText ==
  /\ \/ \E sql \in TextBatches : CallExec(1, sql)
     \/ \E sql \in TextQueries : Query(1, sql)
     \/ Running(1)
  /\ UNCHANGED ncalls

SpecText == InitText /\ [][NextText]_vars

(***************************************************************************)
(* exec as one caller runs it when nothing else touches the document: the  *)
(* outcome and the document it leaves.                                     *)
(***************************************************************************)
\* one trimmed, non-empty statement on document f
Statement(f, stmt) ==
  IF IsCreate(stmt) THEN HandleCreateTable(f, stmt)
  ELSE IF IsInsert(stmt) THEN HandleInsert(f, stmt)
  ELSE Unsupported(stmt)

RECURSIVE RunStatements(_, _)
RunStatements(f, segs) ==
  IF segs = <<>> THEN [res |-> Ok(<<>>), file |-> f]
  ELSE LET stmt == Trim(Head(segs))
           r    == Statement(f, stmt)
       IN IF stmt = <<>> THEN RunStatements(f, Tail(segs))
          ELSE IF r.tag = "Ok" THEN RunStatements(SaveJson(r.rows), Tail(segs))
          ELSE [res |-> r, file |-> f]

Exec(f, sql) == RunStatements(f, Split(sql, <<";">>))

(***************************************************************************)
(* What the claims speak of.                                               *)
(***************************************************************************)
\* c's last call was op(sql) and has returned
Returned(c, op, sql) ==
  pc[c] = "idle" /\ call[c] = CallOf(op, sql) /\ result[c].tag # "Pending"

\* the rows of the log's inserts into t, in the order of the log
RowsOf(lg, t) ==
  LET sel == SelectSeq(lg, LAMBDA e : e.table = t)
  IN [i \in 1..Len(sel) |-> sel[i].row]

(***************************************************************************)
(* C1, for the collections t and u.  Insertion ordering: after any         *)
(* sequence of successful inserts by one caller (in one batch or over      *)
(* several exec calls) into a collection t of a database that held no row, *)
(* SELECT * FROM t returns the inserted rows in the order in which the     *)
(* statements were executed.                                               *)
(***************************************************************************)
C1_InsertionOrder ==
  \A t \in Names :
    (Returned(1, "query", SelectStmt(t)) /\ tracked[1] /\ result[1].tag = "Ok")
      => result[1].rows = RowsOf(log[1], t)

\* R1 = (a, b) then R2 = (b, a), inserted by two exec calls, are retrieved
\* as [R1, R2]
C1_Witness ==
  /\ Returned(1, "query", SelectStmt(tT))
  /\ tracked[1]
  /\ log[1] = <<[table |-> tT, row |-> NewRow(vA, vB)],
                [table |-> tT, row |-> NewRow(vB, vA)]>>
  /\ TotalRows(pre[1]) = 2
  /\ result[1] = Ok(<<NewRow(vA, vB), NewRow(vB, vA)>>)

(***************************************************************************)
(* C2.  Scenario: on a document just created, exec of the batch            *)
(* "CREATE TABLE t (id UUID, name TEXT);\nINSERT INTO t VALUES ('a', 'b');" *)
(* and then query("SELECT * FROM t;") yield exactly one row, whose id is   *)
(* UUID(a) and whose name is TEXT(b).                                      *)
(***************************************************************************)
C2_Scenario ==
  \A t \in Names : \A a \in RowArgs :
    (/\ pc[1] = "idle"
     /\ opening[1] = <<CallOf("create", <<>>),
                       CallOf("exec", Two(CreateStmt(t), InsertStmt(t, a[1], a[2]))),
                       CallOf("query", SelectStmt(t))>>)
      => result[1] = Ok(<<[id |-> UUID(a[1]), name |-> TEXT(a[2])]>>)

C2_Witness ==
  /\ pc[1] = "idle"
  /\ opening[1] = <<CallOf("create", <<>>),
                    CallOf("exec", Two(CreateStmt(tT), InsertStmt(tT, vA, vB))),
                    CallOf("query", SelectStmt(tT))>>
  /\ Len(result[1].rows) = 1
  /\ result[1].rows[1].id = UUID(vA)
  /\ result[1].rows[1].name = TEXT(vB)

(***************************************************************************)
(* C3.  Idempotent creation: exec of "CREATE TABLE t (...);" on a document *)
(* whose database already has the collection t, with any number of rows,   *)
(* returns Ok and leaves the database as it was: the same collections,     *)
(* each with the same rows.                                                *)
(***************************************************************************)
C3_IdempotentCreate ==
  \A t \in Names :
    (/\ Returned(1, "exec", One(CreateStmt(t)))
     /\ pre[1].exists
     /\ t \in DOMAIN DbOf(pre[1]))
      => /\ result[1] = Ok(<<>>)
         /\ file.exists
         /\ DbOf(file) = DbOf(pre[1])

\* the create statement ran on a collection that held two rows
C3_Witness ==
  /\ Returned(1, "exec", One(CreateStmt(tT)))
  /\ pre[1].exists
  /\ tT \in DOMAIN DbOf(pre[1])
  /\ Len(DbOf(pre[1])[tT]) = 2
  /\ DbOf(file) = DbOf(pre[1])

(***************************************************************************)
(* C4.  Misspelling tolerance: exec of "INSET INTO t VALUES ('x','y');"    *)
(* returns what exec of the same text with INSERT for its leading INSET    *)
(* returns from the same document, and leaves the same document.           *)
(***************************************************************************)
\* the statement with INSERT in place of its leading INSET
Respelled(stmt) == txtINSERT \o SubSeq(stmt, Len(txtINSET) + 1, Len(stmt))

C4_MisspellingTolerance ==
  \A t \in Names : \A a \in RowArgs :
    LET inset == InsetStmt(t, a[1], a[2])
    IN Returned(1, "exec", One(inset))
         => [res |-> result[1], file |-> file] = Exec(pre[1], One(Respelled(inset)))

\* the misspelled statement appended its row to a collection that had one
C4_Witness ==
  /\ Returned(1, "exec", One(InsetStmt(tT, vB, vA)))
  /\ pre[1].exists
  /\ DbOf(pre[1]) = (tT :> <<NewRow(vA, vB)>>)
  /\ result[1] = Ok(<<>>)
  /\ DbOf(file) = (tT :> <<NewRow(vA, vB), NewRow(vB, vA)>>)

(***************************************************************************)
(* C5.  Unsupported statement: exec of a batch whose only statement starts *)
(* with none of CREATE TABLE, INSERT INTO, INSET INTO returns a SqlError   *)
(* "Unsupported SQL: " followed by the trimmed statement, and leaves the   *)
(* document as it was.                                                     *)
(***************************************************************************)
C5_UnsupportedStatement ==
  \A sql \in Batches :
    LET ss == Statements(sql)
    IN (/\ Returned(1, "exec", sql)
        /\ Len(ss) = 1
        /\ ~StartsWith(ss[1], kwCREATE_TABLE)
        /\ ~StartsWith(ss[1], kwINSERT_INTO)
        /\ ~StartsWith(ss[1], kwINSET_INTO))
         => /\ result[1].tag = "Err"
            /\ result[1].kind = "SqlError"
            /\ result[1].msg = msgUnsupported \o ss[1]
            /\ Find(result[1].msg, ss[1]) # 0
            /\ file = pre[1]

\* "DROP TABLE t;" was refused on a document that holds a row
C5_Witness ==
  /\ Returned(1, "exec", One(DropStmt(tT)))
  /\ pre[1].exists
  /\ TotalRows(pre[1]) > 0
  /\ result[1] = SqlError(msgUnsupported \o DropStmt(tT))
  /\ file = pre[1]

(***************************************************************************)
(* C6.  Batch abort without rollback: exec of a batch of several           *)
(* statements applies them in textual order; when statement k is the first *)
(* to fail, exec returns the error of statement k, the document is the one *)
(* statements 1..k-1 left, and no later statement is applied.              *)
(***************************************************************************)
C6_BatchAbort ==
  \A sql \in Batches :
    LET ss == Statements(sql)
    IN \A k \in 1..Len(ss) :
         LET before == RunStatements(pre[1], SubSeq(ss, 1, k - 1))
             fail   == Statement(before.file, ss[k])
         IN (/\ Returned(1, "exec", sql)
             /\ Len(ss) > 1
             /\ before.res.tag = "Ok"
             /\ fail.tag # "Ok")
              => /\ result[1].tag = "Err"
                 /\ result[1] = fail
                 /\ file = before.file

(***************************************************************************)
(* C7.  Unknown collection retrieval: on a document that exists, whatever  *)
(* database it holds, query("SELECT * FROM t;") for a t that is not a key  *)
(* of the database returns Ok with no row, and not an error.               *)
(***************************************************************************)
C7_UnknownCollection ==
  \A t \in Names :
    (/\ Returned(1, "query", SelectStmt(t))
     /\ pre[1].exists
     /\ t \notin DOMAIN DbOf(pre[1]))
      => result[1] = Ok(<<>>)

\* u was asked for in a database that has t, with a row, and no u
C7_Witness ==
  /\ Returned(1, "query", SelectStmt(tU))
  /\ pre[1].exists
  /\ DbOf(pre[1]) = (tT :> <<NewRow(vA, vB)>>)
  /\ result[1] = Ok(<<>>)

(***************************************************************************)
(* C8.  Malformed create/insert statements give typed errors: exec of a    *)
(* create or insert statement with no name token, no parenthesized list or *)
(* fewer than two arguments returns an error to the caller, not a panic,   *)
(* and leaves the document as it was.                                      *)
(***************************************************************************)
C8_MalformedTyped ==
  \A s \in Incomplete :
    (Returned(1, "exec", One(s)) /\ pre[1].exists)
      => /\ result[1].tag = "Err"
         /\ result[1].kind = "SqlError"
         /\ file = pre[1]

(***************************************************************************)
(* C9.  Retrieve rejects bad statements: query of a text that, trimmed,    *)
(* does not start with SELECT returns SqlError "Only SELECT is supported"; *)
(* query of a text that starts with SELECT and has fewer than 4 tokens     *)
(* returns SqlError "Invalid SELECT syntax"; both whether or not the       *)
(* document exists, which is left as it was.                               *)
(***************************************************************************)
C9_RetrieveRejects ==
  \A sql \in Queries :
    Returned(1, "query", sql)
      => /\ ~StartsWith(Trim(sql), kwSELECT)
              => result[1] = SqlError(msgOnlySelect) /\ file = pre[1]
         /\ (StartsWith(Trim(sql), kwSELECT) /\ Len(SplitWhitespace(Trim(sql))) < 4)
              => result[1] = SqlError(msgInvalidSelect) /\ file = pre[1]

\* "SELECT * FROM" was refused as malformed while the document was missing
C9_Witness ==
  /\ Returned(1, "query", txtSelectFrom)
  /\ ~pre[1].exists
  /\ ~file.exists
  /\ result[1] = SqlError(msgInvalidSelect)

(***************************************************************************)
(* C10.  Lost update under concurrency: when two callers each exec one     *)
(* insert statement on the same document and both load it before either    *)
(* saves, both calls return Ok and the document holds what was loaded plus *)
(* the row of the caller that saved last, and not the other's row.  While  *)
(* only one caller has made calls, every insert that was saved is in the   *)
(* document, in order.                                                     *)
(***************************************************************************)
\* the call is exec of a batch of exactly one insert statement
OneInsert(cl) ==
  /\ cl.op = "exec"
  /\ Len(Statements(cl.sql)) = 1
  /\ IsInsert(Statements(cl.sql)[1])

\* both callers have returned from one-insert calls that loaded the same
\* document, and w saved last
Raced(w) ==
  /\ \A c \in Callers : pc[c] = "idle" /\ OneInsert(call[c]) /\ ncalls[c] > 0
  /\ loaded[1] = loaded[2]
  /\ lastSaver = w

SavedValues == {INT(1), TEXT(vA), UUID(vA)}

\* rows of the inserted shape, rows with the tags elsewhere, a row of another
\* field
SavedRows ==
  {[id |-> v, name |-> TEXT(vA)] : v \in SavedValues}
    \cup {[id |-> UUID(vA), name |-> INT(1)], [id |-> TEXT(vA), name |-> UUID(vA)],
          ("n" :> INT(0))}

\* the sequences over S of length at most n
RECURSIVE SeqsUpTo(_, _)
SeqsUpTo(S, n) ==
  IF n = 0 THEN {<<>>}
  ELSE LET shorter == SeqsUpTo(S, n - 1)
       IN shorter \cup {Append(q, x) : q \in {r \in shorter : Len(r) = n - 1}, x \in S}

Databases ==
  {EmptyDB}
    \cup {(tT :> rows) : rows \in SeqsUpTo(SavedRows, MaxSavedRows)}
    \cup {(tT :> rows) @@ (tU :> more) :
            rows \in SeqsUpTo(SavedRows, MaxSavedRows), more \in SeqsUpTo(SavedRows, 1)}

\* what the path holds before the save: nothing, text that is not JSON, or
\* an older database
InitSaveLoad ==
  /\ file \in {NoFile, FileOf(NotJson), SaveJson((tU :> <<NewRow(vB, vB)>>))}
  /\ handle = [c \in Callers |-> TRUE]
  /\ tracked = [c \in Callers |-> FALSE]
  /\ Idle

\* Self::save_json(&self.path, &db), once in a run
SaveDatabase(db) ==
  /\ pc[1] = "idle"
  /\ ncalls[1] = 0
  /\ ncalls' = [ncalls EXCEPT ![1] = 1]
  /\ data' = [data EXCEPT ![1] = db]
  /\ file' = SaveJson(db)
  /\ result' = [result EXCEPT ![1] = Pending]
  /\ pc' = [pc EXCEPT ![1] = "saved"]
  /\ UNCHANGED <<handle, stmts, cur, call, pre, loaded, tracked, log, opening,
                 lastSaver>>

\* Self::load_json(&self.path)
LoadDatabase ==
  /\ pc[1] = "saved"
  /\ result' = [result EXCEPT ![1] = LoadJson(file)]
  /\ pc' = [pc EXCEPT ![1] = "idle"]
  /\ UNCHANGED <<file, handle, stmts, cur, data, call, pre, loaded, tracked, log,
                 opening, lastSaver, ncalls>>

NextSaveLoad ==
  \/ \E db \in Databases : SaveDatabase(db)
  \/ LoadDatabase

SpecSaveLoad == InitSaveLoad /\ [][NextSaveLoad]_vars

(***************************************************************************)
(* C11.  Round-trip: for every Database value D, load_json after           *)
(* save_json(D) returns Ok of a Database equal to D: the same collection   *)
(* names, the rows of every collection in the same order, every value with *)
(* its tag.                                                                *)
(***************************************************************************)
C11_RoundTrip ==
  (pc[1] = "idle" /\ result[1].tag # "Pending") => result[1] = Ok(data[1])

\* a database of two collections with all three tags came back as saved
C11_Witness ==
  /\ pc[1] = "idle"
  /\ data[1] = (tT :> <<[id |-> TEXT(vA), name |-> UUID(vA)],
                        [id |-> UUID(vA), name |-> INT(1)]>>)
                 @@ (tU :> <<("n" :> INT(0))>>)
  /\ result[1] = Ok(data[1])

(***************************************************************************)
(* C12.  create leaves an empty database at the path whatever was there:   *)
(* when create has returned the document is "{}" and query of SELECT * FROM *)
(* t returns Ok with no row for every t, also when the path held a         *)
(* database with collections and rows.                                     *)
(***************************************************************************)
C12_CreateEmpties ==
  /\ Returned(1, "create", <<>>)
       => /\ result[1] = Ok(<<>>)
          /\ file = FileOf(JObject(EmptyDB))
          /\ \A t \in Names : QueryResult(file, SelectStmt(t)) = Ok(<<>>)
  /\ \A t \in Names :
       opening[1] = <<CallOf("create", <<>>), CallOf("query", SelectStmt(t))>>
         => result[1] = Ok(<<>>)

\* create ran on a document that held two rows
C12_Witness ==
  /\ Returned(1, "create", <<>>)
  /\ pre[1].exists
  /\ TotalRows(pre[1]) = 2
  /\ file = FileOf(JObject(EmptyDB))

(***************************************************************************)
(* C13.  open fails with IoError "Database file not found" when nothing is *)
(* at the path, and creates nothing; when a document is there it returns   *)
(* Ok whatever the document holds (a database, "{}", text that does not    *)
(* deserialize) and leaves the document as it was.                         *)
(***************************************************************************)
C13_Open ==
  Returned(1, "open", <<>>)
    => /\ file = pre[1]
       /\ ~pre[1].exists => result[1] = IoError(msgNotFound)
       /\ pre[1].exists => result[1] = Ok(<<>>) /\ handle[1]

\* open returned Ok on a document that is not JSON
C13_Witness ==
  /\ Returned(1, "open", <<>>)
  /\ pre[1] = FileOf(NotJson)
  /\ result[1] = Ok(<<>>)
  /\ file = FileOf(NotJson)

(***************************************************************************)
(* C14.  Permissive recovery: on a document that exists and does not       *)
(* deserialize to a database, query of SELECT * FROM t returns Ok with no  *)
(* row, and exec of one create or insert statement returns Ok and leaves a *)
(* document that holds only that statement's effect; on a missing document *)
(* the same calls return an IoError.                                       *)
(***************************************************************************)
\* what one well-formed create or insert statement does to the empty database
EffectOnEmpty(stmt) ==
  IF IsCreate(stmt) THEN (ExtractTableNameFromCreate(stmt).rows :> <<>>)
  ELSE (Inserted(stmt).table :> <<Inserted(stmt).row>>)

C14_PermissiveRecovery ==
  /\ \A t \in Names :
       Returned(1, "query", SelectStmt(t)) =>
         /\ (pre[1].exists /\ ~IsDbJson(pre[1].content)) => result[1] = Ok(<<>>)
         /\ ~pre[1].exists => result[1].tag = "Err" /\ result[1].kind = "IoError"
  /\ \A stmt \in WellFormed :
       Returned(1, "exec", One(stmt)) =>
         /\ (pre[1].exists /\ ~IsDbJson(pre[1].content))
              => result[1] = Ok(<<>>) /\ file = SaveJson(EffectOnEmpty(stmt))
         /\ ~pre[1].exists
              => result[1].tag = "Err" /\ result[1].kind = "IoError" /\ ~file.exists

\* an insert on a document that is not JSON left a database of its one row
C14_Witness ==
  /\ Returned(1, "exec", One(InsertStmt(tT, vA, vB)))
  /\ pre[1] = FileOf(NotJson)
  /\ result[1] = Ok(<<>>)
  /\ DbOf(file) = (tT :> <<NewRow(vA, vB)>>)

(***************************************************************************)
(* C15.  Row shape invariant: in every state reached from create by exec   *)
(* and query calls, every row of every collection of the document, and     *)
(* every row a query returns, has exactly the fields id and name, id       *)
(* tagged UUID and name tagged TEXT.                                       *)
(***************************************************************************)
RowShape(row) ==
  /\ DOMAIN row = {"id", "name"}
  /\ row.id.tag = "UUID"
  /\ row.name.tag = "TEXT"

C15_RowShape ==
  tracked[1] =>
    /\ \A k \in DOMAIN DbOf(file) :
         \A i \in 1..Len(DbOf(file)[k]) : RowShape(DbOf(file)[k][i])
    /\ \A i \in 1..Len(result[1].rows) : RowShape(result[1].rows[i])

\* two collections with a row each, and a query that returned a row
C15_Witness ==
  /\ tracked[1]
  /\ DbOf(file) = (tT :> <<NewRow(vA, vB)>>) @@ (tU :> <<NewRow(vA, vB)>>)
  /\ Returned(1, "query", SelectStmt(tT))
  /\ result[1] = Ok(<<NewRow(vA, vB)>>)

(***************************************************************************)
(* C16, for the collections t and u.  Effect of one insert: exec of one    *)
(* insert statement naming t that returns Ok on database D leaves a        *)
(* database whose t holds D's rows of t                                    *)
(* (none when t was absent) followed by exactly one new row, and whose     *)
(* other collections are those of D, unchanged; exec of one create         *)
(* statement naming t that returns Ok leaves every collection other than t *)
(* as in D.                                                                *)
(***************************************************************************)
\* E has the collections of D and t, and those other than t are as in D
FrameOf(D, E, t) ==
  /\ DOMAIN E = DOMAIN D \cup {t}
  /\ \A k \in DOMAIN D : k # t => E[k] = D[k]

C16_InsertEffect ==
  \A stmt \in WellFormed :
    (Returned(1, "exec", One(stmt)) /\ result[1].tag = "Ok") =>
      LET D == DbOf(pre[1])
          E == DbOf(file)
      IN IF IsCreate(stmt)
         THEN FrameOf(D, E, ExtractTableNameFromCreate(stmt).rows)
         ELSE LET t == SplitWhitespace(stmt)[3]
              IN /\ FrameOf(D, E, t)
                 /\ Len(E[t]) = Len(DbGet(D, t)) + 1
                 /\ SubSeq(E[t], 1, Len(E[t]) - 1) = DbGet(D, t)

\* u was absent and t had a row: u was created with one row, t was kept
C16_Witness ==
  /\ Returned(1, "exec", One(InsertStmt(tU, vA, vB)))
  /\ result[1] = Ok(<<>>)
  /\ DbOf(pre[1]) = (tT :> <<NewRow(vB, vA)>>)
  /\ DbOf(file) = (tT :> <<NewRow(vB, vA)>>) @@ (tU :> <<NewRow(vA, vB)>>)

(***************************************************************************)
(* C17.  Append-only history: no step of an exec or of a query removes the *)
(* document, removes a collection, or changes the rows a collection had:   *)
(* the rows of each collection before the step are a prefix of its rows    *)
(* after the step, whether the call succeeds or fails.                     *)
(***************************************************************************)
IsPrefix(p, q) == Len(p) <= Len(q) /\ SubSeq(q, 1, Len(p)) = p

\* the step begins or continues a call of exec or query: create, open and
\* the removal of the file leave another value in call
ExecOrQueryStep == call'[1].op \in {"exec", "query"}

GrowsOnly ==
  \/ file' = file
  \/ /\ file.exists => file'.exists
     /\ \A k \in DOMAIN DbOf(file) :
          /\ k \in DOMAIN DbOf(file')
          /\ IsPrefix(DbOf(file)[k], DbOf(file')[k])

C17_AppendOnly == [][ExecOrQueryStep => GrowsOnly]_vars

\* a batch that failed at its second statement had appended a row to the one
\* the collection held
C17_Witness ==
  /\ Returned(1, "exec", Three(InsertStmt(tT, vA, vB), DropStmt(tT), InsertStmt(tT, vB, vA)))
  /\ result[1].tag = "Err"
  /\ DbOf(pre[1]) = (tT :> <<NewRow(vB, vA)>>)
  /\ DbOf(file) = (tT :> <<NewRow(vB, vA), NewRow(vA, vB)>>)

(***************************************************************************)
(* C18.  Stored values are the written values: exec of                     *)
(* "INSERT INTO t VALUES ('x', 'y');" that returns Ok appends to the       *)
(* collection named by the statement's third token t, as written, a row    *)
(* whose id is x and whose name is y, as written between the quotes, also  *)
(* when t, x or y is the text INSET.                                       *)
(***************************************************************************)
C18_StoredAsWritten ==
  \A a \in PlainArgs \cup InsetArgs :
    (Returned(1, "exec", One(InsertStmt(a[1], a[2], a[3]))) /\ result[1].tag = "Ok")
      => /\ a[1] \in DOMAIN DbOf(file)
         /\ DbGet(DbOf(file), a[1])
              = Append(DbGet(DbOf(pre[1]), a[1]), [id |-> UUID(a[2]), name |-> TEXT(a[3])])

(***************************************************************************)
(* C19.  Exact keyword matching: exec of a statement whose leading tokens  *)
(* have CREATE TABLE or INSERT INTO as a proper prefix, or differ from     *)
(* them in case, returns the unsupported-statement SqlError and leaves the *)
(* document as it was; query of such a text for SELECT returns the         *)
(* SqlError "Only SELECT is supported" and no rows.                        *)
(***************************************************************************)
C19_ExactKeywords ==
  /\ \A s \in NearKeyword :
       Returned(1, "exec", One(s))
         => result[1] = SqlError(msgUnsupported \o s) /\ file = pre[1]
  /\ \A q \in NearSelect :
       Returned(1, "query", q)
         => result[1] = SqlError(msgOnlySelect) /\ file = pre[1]

(***************************************************************************)
(* C20.  query is read-only: whatever its statement and whatever it        *)
(* returns (rows, no row for an absent collection, an error), the document *)
(* after query is the document before it: an absent collection is not      *)
(* created, a document that does not deserialize is not rewritten, a       *)
(* missing document is not created.                                        *)
(***************************************************************************)
C20_QueryReadOnly ==
  \A sql \in Queries : Returned(1, "query", sql) => file = pre[1]

\* a collection was asked for in a document that is not JSON: no row, and
\* the document is still that text
C20_Witness ==
  /\ Returned(1, "query", SelectStmt(tT))
  /\ pre[1] = FileOf(NotJson)
  /\ result[1] = Ok(<<>>)
  /\ file = FileOf(NotJson)

(***************************************************************************)
(* C1, for any collection name.  Insertion ordering: after exec of an      *)
(* insert statement into t that returns Ok, SELECT * FROM t returns the    *)
(* rows it returned before the insert, in the same order, followed by one  *)
(* new row, also when t is the text INSET.                                 *)
(***************************************************************************)
C1_AnyCollection ==
  \A a \in PlainArgs \cup InsetArgs :
    (Returned(1, "exec", One(InsertStmt(a[1], a[2], a[3]))) /\ result[1].tag = "Ok")
      => LET before == QueryResult(pre[1], SelectStmt(a[1])).rows
             after  == QueryResult(file, SelectStmt(a[1])).rows
         IN /\ Len(after) = Len(before) + 1
            /\ SubSeq(after, 1, Len(before)) = before

(***************************************************************************)
(* C16, for any collection name.  Effect of one insert: exec of an insert  *)
(* statement naming t that returns Ok on database D leaves a database with *)
(* the collections of D and t, where t holds D's rows of t followed by     *)
(* exactly one new row and every other collection is as in D, also when t  *)
(* is the text INSET.                                                      *)
(***************************************************************************)
C16_AnyCollection ==
  \A a \in PlainArgs \cup InsetArgs :
    (Returned(1, "exec", One(InsertStmt(a[1], a[2], a[3]))) /\ result[1].tag = "Ok")
      => LET D == DbOf(pre[1])
             E == DbOf(file)
         IN /\ FrameOf(D, E, a[1])
            /\ Len(E[a[1]]) = Len(DbGet(D, a[1])) + 1
            /\ SubSeq(E[a[1]], 1, Len(E[a[1]]) - 1) = DbGet(D, a[1])

====
